---- MODULE Spec2Model ----
(***************************************************************************)
(* Model of the Fork git-client installer (src/mdm/git_clients/fork_app.rs)*)
(* over its two persistent stores: the macOS preference domain and the     *)
(* Windows settings.json file, plus the degraded variant of other hosts.   *)
(*                                                                         *)
(* A path or any other string is a sequence of one-character strings.      *)
(* A JSON / preference value is a record [t, hi, lo, s]:                   *)
(*   t = "absent"  the key is not in the document                          *)
(*   t = "int"     the integer hi * 2^32 + lo  (hi, lo: 32-bit words)      *)
(*   t = "str"     the string s                                            *)
(*   t = "other"   any value that is neither an integer nor a string       *)
(***************************************************************************)
EXTENDS Integers, Sequences, FiniteSets, TLC

\* ---------------------------------------------------------------- bounds
\* number of keys of the settings document that are foreign to this program
MaxOther == 1

\* ------------------------------------------------------ program constants
SYSTEM == 0
BUNDLED == 1
CUSTOM == 2

\* -------------------------------------------------------------- platforms
MACOS == "macos"
WINDOWS == "windows"
LINUX == "linux"
Platforms == {MACOS, WINDOWS, LINUX}

\* ------------------------------------------------------------------ paths
BS == "\\"
FS == "/"
P_back == <<"C", BS, "g">>
P_fwd == <<"C", FS, "g">>
P_other == <<"D", FS, "g">>
P_ext == <<BS, BS, "?", BS, "C", BS, "g">>
\* the shim paths a caller passes in GitClientInstallerParams
ShimPaths == {P_back, P_fwd, P_other}
\* the strings an externally owned store may hold under the path key
StoredPaths == {<<>>, P_back, P_fwd, P_other}

\* ----------------------------------------------------------------- values
JAbsent == [t |-> "absent", hi |-> 0, lo |-> 0, s |-> <<>>]
JOther == [t |-> "other", hi |-> 0, lo |-> 0, s |-> <<>>]
JInt(hi, lo) == [t |-> "int", hi |-> hi, lo |-> lo, s |-> <<>>]
JStr(str) == [t |-> "str", hi |-> 0, lo |-> 0, s |-> str]

\* Option<i32> / Option<String> as the code's readers return them
NoneV == [some |-> FALSE, n |-> 0, s |-> <<>>]
SomeInt(n) == [some |-> TRUE, n |-> n, s |-> <<>>]
SomeStr(str) == [some |-> TRUE, n |-> 0, s |-> str]

\* values the instance-type key may hold in a settings document
\* (JInt(1, CUSTOM) is 2^32 + 2, a JSON integer that fits i64 but not i32)
FileTypeVals == {JAbsent, JInt(0, SYSTEM), JInt(0, BUNDLED), JInt(0, CUSTOM), JInt(1, CUSTOM)}
\* values the instance-type key may hold in the preference domain
DomainTypeVals == {JAbsent, JInt(0, SYSTEM), JInt(0, BUNDLED), JInt(0, CUSTOM)}
\* values the custom-path key may hold
PathVals == {JAbsent, JOther} \cup {JStr(p) : p \in StoredPaths}

\* ----------------------------------------------------------------- stores
OtherKeys == 1..MaxOther
NoOthers == [k \in OtherKeys |-> 0]

\* the settings file: kind says what the text of the file is
\*   "nofile" no file; "blank" empty or white space only; "malformed" text
\*   that is not JSON; "nonobject" JSON that is not an object (an array, a
\*   number, ...); "object" a JSON object with the keys type, path, other.
\* pretty says whether the text is exactly serde_json's pretty rendering.
NoFile == [kind |-> "nofile", pretty |-> FALSE, type |-> JAbsent, path |-> JAbsent, other |-> NoOthers]
BlankFile == [NoFile EXCEPT !.kind = "blank"]
MalformedFile == [NoFile EXCEPT !.kind = "malformed"]
NonObjectFile == [NoFile EXCEPT !.kind = "nonobject"]
ObjectFiles == [kind : {"object"}, pretty : {FALSE}, type : FileTypeVals, path : PathVals, other : [OtherKeys -> 0..1]]
Files == {NoFile, BlankFile, MalformedFile, NonObjectFile} \cup ObjectFiles

NoDomain == [type |-> JAbsent, path |-> JAbsent]
Domains == [type : DomainTypeVals, path : PathVals]

\* a store: app (the application itself is on the machine: the bundle on
\* macOS, Fork.exe under Program Files on Windows), dir (the settings
\* directory exists), file (the settings file), domain (the preferences)
\* (on Windows detection reads app only through dir \/ app, so app varies
\* only where no settings file exists; on macOS a store of an undetected
\* application is one that holds the Custom type)
WindowsStores == {s \in [app : BOOLEAN, dir : BOOLEAN, file : Files, domain : {NoDomain}] : s.file.kind # "nofile" => (s.dir /\ s.app)}
MacStores == {s \in [app : BOOLEAN, dir : {FALSE}, file : {NoFile}, domain : Domains] : ~s.app => s.domain.type = JInt(0, CUSTOM)}
LinuxStores == [app : {FALSE}, dir : {FALSE}, file : {NoFile}, domain : {NoDomain}]
StoresOf(plat) == IF plat = WINDOWS THEN WindowsStores ELSE IF plat = MACOS THEN MacStores ELSE LinuxStores

\* -------------------------------------------------------------- variables
VARIABLES platform, appFound, settingsDir, settingsFile, prefsDomain, last, prev
\* the invocations in flight when two processes call the installer at once:
\* pc is the statement each process is at, loc its local variables, tmp the
\* temporary file of its write_atomic; seen is the text another reader of the
\* settings path got at its latest read, if it has read
VARIABLES pc, loc, tmp, seen
conc == <<pc, loc, tmp, seen>>
\* the two helpers around the installer: gl is the run of
\* get_gitlab_ci_context, ln the runs of ensure_git_symlinks with the
\* directory entry <base_dir>/libexec they work on
VARIABLES gl, ln
aux == <<gl, ln>>
vars == <<platform, appFound, settingsDir, settingsFile, prefsDomain, last, prev, pc, loc, tmp, seen, gl, ln>>

Store == [app |-> appFound, dir |-> settingsDir, file |-> settingsFile, domain |-> prefsDomain]

\* ------------------------------------------------------------ conversions
\* str::replace('\\', "/") on the text of the path
Normalize(p) == [i \in 1..Len(p) |-> IF p[i] = BS THEN FS ELSE p[i]]
\* Path::to_string_lossy: a unit that is not valid Unicode (written "\x80"
\* here) becomes U+FFFD, every other character is kept
ToStringLossy(p) == [i \in 1..Len(p) |-> IF p[i] = "\\x80" THEN "U+FFFD" ELSE p[i]]
\* `v as i32` on an i64: the low 32 bits (all low words used here are < 2^31)
AsI32(v) == v.lo

\* ------------------------------------------------------- results, diffs
NoDiff == [sign |-> "", target |-> "", type |-> 0, hasPath |-> FALSE, path |-> <<>>]
\* "+++ <target>\n+GitInstanceType = 2\n+CustomGitInstancePath = <path>\n"
AddDiff(target, path) == [sign |-> "+", target |-> target, type |-> CUSTOM, hasPath |-> TRUE, path |-> path]
\* "--- <target>\n-GitInstanceType = <old_type>\n" and, when old_path is not
\* empty, "-CustomGitInstancePath = <old_path>\n"
RemoveDiff(target, old_type, old_path) == [sign |-> "-", target |-> target, type |-> old_type, hasPath |-> old_path # <<>>, path |-> old_path]
OkNone == [tag |-> "None", diff |-> NoDiff]
OkSome(d) == [tag |-> "Some", diff |-> d]
Err == [tag |-> "Err", diff |-> NoDiff]

\* GitClientCheckResult, with the number of reads of the store it took
CheckResult(inst, conf, up, n) == [client_installed |-> inst, prefs_configured |-> conf, prefs_up_to_date |-> up, reads |-> n]
AllFalse == CheckResult(FALSE, FALSE, FALSE, 0)
\* what an install / uninstall call leaves: the store, the returned value,
\* and the numbers of reads and of writes of the store it made
Outcome(s, res, r, w) == [s |-> s, res |-> res, reads |-> r, writes |-> w]

\* the I/O steps of a call that the environment can make fail
\*   chkread1, chkread2: the two reads of check; read: the read of install or
\*   uninstall; mkdir: create_dir_all; write1: the (first) write; write2: the
\*   second key write of install, the delete of uninstall
NoFault == "none"
Faults == {"chkread1", "chkread2", "read", "mkdir", "write1", "write2"}

\* ------------------------------------------- macOS preference backend
\* Preferences::read_int: the integer under the key, None when the key is
\* missing or holds another type
read_int(v) == IF v.t = "int" THEN SomeInt(v.lo) ELSE NoneV
\* Preferences::read_string
read_string(v) == IF v.t = "str" THEN SomeStr(v.s) ELSE NoneV
\* Preferences::write_int(key, n) / write_string(key, str) / delete(key)
write_int(d, key, n) == [d EXCEPT ![key] = JInt(0, n)]
write_string(d, key, str) == [d EXCEPT ![key] = JStr(str)]
delete(d, key) == [d EXCEPT ![key] = JAbsent]

\* ------------------------------------------- Windows settings-file backend
\* is_fork_installed (windows): settings_dir.exists() || app_path.exists()
is_fork_installed_windows(s) == s.dir \/ s.app
\* is_fork_installed (macos): find_app_by_bundle_id(..).is_some()
is_fork_installed_macos(s) == s.app

is_fork_installed(plat, s) == IF plat = MACOS THEN is_fork_installed_macos(s) ELSE IF plat = WINDOWS THEN is_fork_installed_windows(s) ELSE FALSE

\* serde_json::from_str on the text of the file: TRUE when it parses
Parses(file) == file.kind \in {"nonobject", "object"}
\* read_settings: None when the file is missing, unreadable or does not parse
read_settings(s, readFails) == IF s.file.kind = "nofile" \/ readFails \/ ~Parses(s.file) THEN [some |-> FALSE, file |-> NoFile] ELSE [some |-> TRUE, file |-> s.file]
\* Value::get(key) then as_i64: Some for an integer of an object
read_git_instance_type(s, readFails) == LET st == read_settings(s, readFails) IN IF st.some /\ st.file.kind = "object" /\ st.file.type.t = "int" THEN SomeInt(AsI32(st.file.type)) ELSE NoneV
\* Value::get(key) then as_str
read_custom_git_path(s, readFails) == LET st == read_settings(s, readFails) IN IF st.some /\ st.file.kind = "object" /\ st.file.path.t = "str" THEN SomeStr(st.file.path.s) ELSE NoneV
\* write_atomic(path, bytes): the file becomes the new text, or stays as it is
write_atomic(s, newFile) == [s EXCEPT !.file = newFile]
\* a directory creation that does nothing
create_dir_all_skipped(s) == s
\* fs::create_dir_all(parent)
create_dir_all(s) == [s EXCEPT !.dir = TRUE]
\* serde_json::to_string_pretty(&settings)
to_string_pretty(file) == [file EXCEPT !.pretty = TRUE]
\* number of fs::read_to_string calls of the two readers of check
ReadsOfCheck(s) == IF s.file.kind = "nofile" THEN 0 ELSE 2

\* ------------------------------------------------------------ check_client
\* a check that reads the preferences before it looks for the application
check_client_macos_reads_first(s, p, f) ==
  LET git_type == read_int(s.domain.type)
      custom_path == read_string(s.domain.path)
      is_custom == git_type = SomeInt(CUSTOM)
      path_matches == custom_path.some /\ custom_path.s = ToStringLossy(p)
  IN CheckResult(is_fork_installed_macos(s), is_custom /\ custom_path.some, is_custom /\ path_matches, 2)

check_client_macos(s, p, f) ==
  IF ~is_fork_installed_macos(s) THEN AllFalse
  ELSE LET git_type == read_int(s.domain.type)
           custom_path == read_string(s.domain.path)
           is_custom == git_type = SomeInt(CUSTOM)
           path_matches == custom_path.some /\ custom_path.s = ToStringLossy(p)
       IN CheckResult(TRUE, is_custom /\ custom_path.some, is_custom /\ path_matches, 2)

\* a check that takes a matching path for up to date whatever the type is
check_client_windows_path_only(s, p, f) ==
  IF ~is_fork_installed_windows(s) THEN AllFalse
  ELSE LET git_type == read_git_instance_type(s, f = "chkread1")
           custom_path == read_custom_git_path(s, f = "chkread2")
           is_custom == git_type = SomeInt(CUSTOM)
           desired_path == Normalize(ToStringLossy(p))
           path_matches == custom_path.some /\ custom_path.s = desired_path
       IN CheckResult(TRUE, is_custom /\ custom_path.some, path_matches, ReadsOfCheck(s))

check_client_windows(s, p, f) ==
  IF ~is_fork_installed_windows(s) THEN AllFalse
  ELSE LET git_type == read_git_instance_type(s, f = "chkread1")
           custom_path == read_custom_git_path(s, f = "chkread2")
           is_custom == git_type = SomeInt(CUSTOM)
           desired_path == Normalize(ToStringLossy(p))
           path_matches == custom_path.some /\ custom_path.s = desired_path
       IN CheckResult(TRUE, is_custom /\ custom_path.some, is_custom /\ path_matches, ReadsOfCheck(s))

check_client_unsupported(s, p, f) == AllFalse

check_client(plat, s, p, f) ==
  IF plat = MACOS THEN check_client_macos(s, p, f)
  ELSE IF plat = WINDOWS THEN check_client_windows(s, p, f)
  ELSE check_client_unsupported(s, p, f)

\* an update that builds the document anew from the two keys alone
ConfigureObjectFresh(settings, git_wrapper_path) == IF settings.kind = "object" THEN [kind |-> "object", pretty |-> FALSE, type |-> JInt(0, CUSTOM), path |-> JStr(git_wrapper_path), other |-> [k \in DOMAIN settings.other |-> 0]] ELSE settings

\* obj.insert("GitInstanceType", CUSTOM); obj.insert("CustomGitInstancePath", path)
\* under `if let Some(obj) = settings.as_object_mut()`
ConfigureObject(settings, git_wrapper_path) == IF settings.kind = "object" THEN [settings EXCEPT !.type = JInt(0, CUSTOM), !.path = JStr(git_wrapper_path)] ELSE settings

\* a revert that resets the type but leaves the path key in the document
RevertObjectKeepsPath(settings) == IF settings.kind = "object" THEN [settings EXCEPT !.type = JInt(0, SYSTEM)] ELSE settings

\* obj.insert("GitInstanceType", SYSTEM); obj.remove("CustomGitInstancePath")
\* under `if let Some(obj) = settings.as_object_mut()`
RevertObject(settings) == IF settings.kind = "object" THEN [settings EXCEPT !.type = JInt(0, SYSTEM), !.path = JAbsent] ELSE settings

\* ----------------------------------------------------------- install_prefs
\* an install that writes the custom path before the instance type
install_prefs_macos_path_first(s, p, dry, f) ==
  LET check == check_client_macos(s, p, f)
      git_wrapper_path == ToStringLossy(p)
      diff == AddDiff("domain", git_wrapper_path)
      d1 == write_string(s.domain, "path", git_wrapper_path)
      d2 == write_int(d1, "type", CUSTOM)
  IN IF ~check.client_installed \/ check.prefs_up_to_date THEN Outcome(s, OkNone, check.reads, 0)
     ELSE IF dry THEN Outcome(s, OkSome(diff), check.reads, 0)
     ELSE IF f = "write1" THEN Outcome(s, Err, check.reads, 0)
     ELSE IF f = "write2" THEN Outcome([s EXCEPT !.domain = d1], Err, check.reads, 1)
     ELSE Outcome([s EXCEPT !.domain = d2], OkSome(diff), check.reads, 2)

install_prefs_macos(s, p, dry, f) ==
  LET check == check_client_macos(s, p, f)
      git_wrapper_path == ToStringLossy(p)
      diff == AddDiff("domain", git_wrapper_path)
      d1 == write_int(s.domain, "type", CUSTOM)
      d2 == write_string(d1, "path", git_wrapper_path)
  IN IF ~check.client_installed \/ check.prefs_up_to_date THEN Outcome(s, OkNone, check.reads, 0)
     ELSE IF dry THEN Outcome(s, OkSome(diff), check.reads, 0)
     ELSE IF f = "write1" THEN Outcome(s, Err, check.reads, 0)
     ELSE IF f = "write2" THEN Outcome([s EXCEPT !.domain = d1], Err, check.reads, 1)
     ELSE Outcome([s EXCEPT !.domain = d2], OkSome(diff), check.reads, 2)

\* json!({}): the empty object
EmptyObject == [kind |-> "object", pretty |-> FALSE, type |-> JAbsent, path |-> JAbsent, other |-> NoOthers]

install_prefs_windows(s, p, dry, f) ==
  LET check == check_client_windows(s, p, f)
      git_wrapper_path == Normalize(ToStringLossy(p))
      exists == s.file.kind # "nofile"
      nread == check.reads + (IF exists THEN 1 ELSE 0)
      isEmpty == s.file.kind \in {"nofile", "blank"}
      settings == IF isEmpty THEN EmptyObject ELSE s.file
      diff == AddDiff("file", git_wrapper_path)
      updated == ConfigureObject(settings, git_wrapper_path)
      s1 == IF ~s.dir THEN create_dir_all(s) ELSE s
  IN IF ~check.client_installed THEN Outcome(s, OkNone, check.reads, 0)
     ELSE IF check.prefs_up_to_date THEN Outcome(s, OkNone, check.reads, 0)
     ELSE IF exists /\ f = "read" THEN Outcome(s, Err, nread, 0)
     ELSE IF ~isEmpty /\ ~Parses(s.file) THEN Outcome(s, Err, nread, 0)
     ELSE IF dry THEN Outcome(s, OkSome(diff), nread, 0)
     ELSE IF ~s.dir /\ f = "mkdir" THEN Outcome(s, Err, nread, 0)
     ELSE IF f = "write1" THEN Outcome(s1, Err, nread, 0)
     ELSE Outcome(write_atomic(s1, to_string_pretty(updated)), OkSome(diff), nread, 1)

install_prefs_unsupported(s, p, dry, f) == Outcome(s, OkNone, 0, 0)

install_prefs(plat, s, p, dry, f) ==
  IF plat = MACOS THEN install_prefs_macos(s, p, dry, f)
  ELSE IF plat = WINDOWS THEN install_prefs_windows(s, p, dry, f)
  ELSE install_prefs_unsupported(s, p, dry, f)

\* --------------------------------------------------------- uninstall_prefs
\* an uninstall that builds its diff from the values it reads after writing
uninstall_prefs_macos_late_diff(s, p, dry, f) ==
  LET check == check_client_macos(s, p, f)
      d1 == write_int(s.domain, "type", SYSTEM)
      d2 == IF f = "write2" THEN d1 ELSE delete(d1, "path")
      src == IF dry THEN s.domain ELSE d2
      rt == read_int(src.type)
      rp == read_string(src.path)
      old_type == IF rt.some THEN rt.n ELSE 0
      old_path == IF rp.some THEN rp.s ELSE <<>>
      diff == RemoveDiff("domain", old_type, old_path)
  IN IF ~check.client_installed \/ ~check.prefs_configured THEN Outcome(s, OkNone, check.reads, 0)
     ELSE IF dry THEN Outcome(s, OkSome(diff), check.reads + 2, 0)
     ELSE IF f = "write1" THEN Outcome(s, Err, check.reads + 2, 0)
     ELSE Outcome([s EXCEPT !.domain = d2], OkSome(diff), check.reads + 2, IF f = "write2" THEN 1 ELSE 2)

uninstall_prefs_macos(s, p, dry, f) ==
  LET check == check_client_macos(s, p, f)
      rt == read_int(s.domain.type)
      rp == read_string(s.domain.path)
      old_type == IF rt.some THEN rt.n ELSE 0
      old_path == IF rp.some THEN rp.s ELSE <<>>
      diff == RemoveDiff("domain", old_type, old_path)
      d1 == write_int(s.domain, "type", SYSTEM)
      d2 == IF f = "write2" THEN d1 ELSE delete(d1, "path")
  IN IF ~check.client_installed \/ ~check.prefs_configured THEN Outcome(s, OkNone, check.reads, 0)
     ELSE IF dry THEN Outcome(s, OkSome(diff), check.reads + 2, 0)
     ELSE IF f = "write1" THEN Outcome(s, Err, check.reads + 2, 0)
     ELSE Outcome([s EXCEPT !.domain = d2], OkSome(diff), check.reads + 2, IF f = "write2" THEN 1 ELSE 2)

\* an uninstall that writes the file in place, so that a failed write leaves
\* it truncated
uninstall_prefs_windows_inplace(s, p, dry, f) ==
  LET check == check_client_windows(s, p, f)
      settings == s.file
      isObj == settings.kind = "object"
      old_type == IF isObj /\ settings.type.t = "int" THEN AsI32(settings.type) ELSE 0
      old_path == IF isObj /\ settings.path.t = "str" THEN settings.path.s ELSE <<>>
      diff == RemoveDiff("file", old_type, old_path)
      updated == RevertObject(settings)
  IN IF ~check.client_installed \/ ~check.prefs_configured THEN Outcome(s, OkNone, check.reads, 0)
     ELSE IF s.file.kind = "nofile" THEN Outcome(s, OkNone, check.reads, 0)
     ELSE IF f = "read" THEN Outcome(s, Err, check.reads + 1, 0)
     ELSE IF ~Parses(s.file) THEN Outcome(s, Err, check.reads + 1, 0)
     ELSE IF dry THEN Outcome(s, OkSome(diff), check.reads + 1, 0)
     ELSE IF f = "write1" THEN Outcome([s EXCEPT !.file = BlankFile], Err, check.reads + 1, 0)
     ELSE Outcome(write_atomic(s, to_string_pretty(updated)), OkSome(diff), check.reads + 1, 1)

uninstall_prefs_windows(s, p, dry, f) ==
  LET check == check_client_windows(s, p, f)
      settings == s.file
      isObj == settings.kind = "object"
      old_type == IF isObj /\ settings.type.t = "int" THEN AsI32(settings.type) ELSE 0
      old_path == IF isObj /\ settings.path.t = "str" THEN settings.path.s ELSE <<>>
      diff == RemoveDiff("file", old_type, old_path)
      updated == RevertObject(settings)
  IN IF ~check.client_installed \/ ~check.prefs_configured THEN Outcome(s, OkNone, check.reads, 0)
     ELSE IF s.file.kind = "nofile" THEN Outcome(s, OkNone, check.reads, 0)
     ELSE IF f = "read" THEN Outcome(s, Err, check.reads + 1, 0)
     ELSE IF ~Parses(s.file) THEN Outcome(s, Err, check.reads + 1, 0)
     ELSE IF dry THEN Outcome(s, OkSome(diff), check.reads + 1, 0)
     ELSE IF f = "write1" THEN Outcome(s, Err, check.reads + 1, 0)
     ELSE Outcome(write_atomic(s, to_string_pretty(updated)), OkSome(diff), check.reads + 1, 1)

\* a degraded variant that reports the missing backend as an error
uninstall_prefs_unsupported_err(s, p, dry, f) == Outcome(s, Err, 0, 0)

uninstall_prefs_unsupported(s, p, dry, f) == Outcome(s, OkNone, 0, 0)

\* an uninstall that only reverts a configuration pointing at the caller's
\* shim path
uninstall_prefs_own_path_only(plat, s, p, dry, f) ==
  IF ~check_client(plat, s, p, f).prefs_up_to_date THEN Outcome(s, OkNone, check_client(plat, s, p, f).reads, 0)
  ELSE IF plat = MACOS THEN uninstall_prefs_macos(s, p, dry, f)
  ELSE IF plat = WINDOWS THEN uninstall_prefs_windows(s, p, dry, f)
  ELSE uninstall_prefs_unsupported(s, p, dry, f)

uninstall_prefs(plat, s, p, dry, f) ==
  IF plat = MACOS THEN uninstall_prefs_macos(s, p, dry, f)
  ELSE IF plat = WINDOWS THEN uninstall_prefs_windows(s, p, dry, f)
  ELSE uninstall_prefs_unsupported(s, p, dry, f)

\* cfg!(target_os = "macos") || cfg!(windows)
is_platform_supported(plat) == plat = MACOS \/ plat = WINDOWS

\* ------------------------------------------------------------ the machine
\* last and prev record the two most recent calls on the installer: the
\* operation, its arguments, the returned value, the check result it
\* computed, the store as it was when the call started, and its I/O counts.
CheckTag == [tag |-> "Check", diff |-> NoDiff]
Call(op, p, dry, res, chk, pre, r, w) == [op |-> op, path |-> p, dry |-> dry, res |-> res, chk |-> chk, pre |-> pre, reads |-> r, writes |-> w]
NoCall(s) == Call("none", <<>>, FALSE, OkNone, AllFalse, s, 0, 0)

SetStore(s) ==
  /\ appFound' = s.app
  /\ settingsDir' = s.dir
  /\ settingsFile' = s.file
  /\ prefsDomain' = s.domain

\* a merge request of the API response (sha and source_branch, which are
\* only copied into the returned event, are left out)
NoMR == [iid |-> 0, target_branch |-> "", merge_commit_sha |-> NoneV]
\* get_gitlab_ci_context before it is called
GlIdle == [pc |-> "idle", env |-> {}, header |-> "", status |-> 0, body |-> "", mrs |-> <<>>, mr |-> NoMR, log |-> <<>>, clone |-> "untried", fetch |-> "untried", result |-> "running"]
\* ensure_git_symlinks before it is called
\* (an entry of the directory is absent, a link to a directory, a regular
\* file, or a directory that is not empty)
NoEntry == [kind |-> "absent", to |-> <<>>]
LnIdle == [pc |-> "idle", os |-> "", exe |-> <<>>, known |-> FALSE, exec |-> <<>>, link |-> NoEntry, link0 |-> NoEntry, link1 |-> NoEntry, calls |-> 0, git |-> 0, before |-> "none", result |-> "running"]

\* the two processes, and the locals of an invocation: the operation and
\* the shim path, what check read, the document to write, the writes made
Procs == {1, 2}
\* the reader has not read the settings path yet
NotRead == [NoFile EXCEPT !.kind = "notread"]
Locals(op, p) == [op |-> op, path |-> p, gtype |-> NoneV, cpath |-> NoneV, new |-> NoFile, res |-> OkNone, wrote |-> 0]

Init ==
  /\ platform \in Platforms
  /\ \E s \in StoresOf(platform) :
       /\ appFound = s.app
       /\ settingsDir = s.dir
       /\ settingsFile = s.file
       /\ prefsDomain = s.domain
       /\ last = NoCall(s)
       /\ prev = NoCall(s)
  /\ pc = [i \in Procs |-> "idle"]
  /\ loc = [i \in Procs |-> Locals("none", <<>>)]
  /\ tmp = [i \in Procs |-> NoFile]
  /\ seen = NotRead
  /\ gl = GlIdle
  /\ ln = LnIdle

\* a check that answers from the result of the check made two calls ago
CheckCached(p) ==
  /\ last' = Call("check", p, FALSE, CheckTag, IF prev.op = "check" /\ prev.path = p THEN prev.chk ELSE check_client(platform, Store, p, NoFault), Store, check_client(platform, Store, p, NoFault).reads, 0)
  /\ prev' = last
  /\ UNCHANGED <<platform, appFound, settingsDir, settingsFile, prefsDomain>>
  /\ UNCHANGED conc
  /\ UNCHANGED aux

\* GitClientInstaller::check_client(params)
Check(p) ==
  /\ last' = Call("check", p, FALSE, CheckTag, check_client(platform, Store, p, NoFault), Store, check_client(platform, Store, p, NoFault).reads, 0)
  /\ prev' = last
  /\ UNCHANGED <<platform, appFound, settingsDir, settingsFile, prefsDomain>>
  /\ UNCHANGED conc
  /\ UNCHANGED aux

\* an install that mutates the store whatever dry_run is
InstallIgnoringDryRun(p, dry) ==
  LET o == install_prefs(platform, Store, p, FALSE, NoFault)
  IN /\ SetStore(o.s)
     /\ last' = Call("install", p, dry, o.res, check_client(platform, Store, p, NoFault), Store, o.reads, o.writes)
     /\ prev' = last
     /\ UNCHANGED platform
     /\ UNCHANGED conc
     /\ UNCHANGED aux

\* GitClientInstaller::install_prefs(params, dry_run)
Install(p, dry) ==
  LET o == install_prefs(platform, Store, p, dry, NoFault)
  IN /\ SetStore(o.s)
     /\ last' = Call("install", p, dry, o.res, check_client(platform, Store, p, NoFault), Store, o.reads, o.writes)
     /\ prev' = last
     /\ UNCHANGED platform
     /\ UNCHANGED conc
     /\ UNCHANGED aux

\* an uninstall that tests dry_run the wrong way round
UninstallInverted(p, dry) ==
  LET o == uninstall_prefs(platform, Store, p, ~dry, NoFault)
  IN /\ SetStore(o.s)
     /\ last' = Call("uninstall", p, dry, o.res, check_client(platform, Store, p, NoFault), Store, o.reads, o.writes)
     /\ prev' = last
     /\ UNCHANGED platform
     /\ UNCHANGED conc
     /\ UNCHANGED aux

\* GitClientInstaller::uninstall_prefs(params, dry_run)
Uninstall(p, dry) ==
  LET o == uninstall_prefs(platform, Store, p, dry, NoFault)
  IN /\ SetStore(o.s)
     /\ last' = Call("uninstall", p, dry, o.res, check_client(platform, Store, p, NoFault), Store, o.reads, o.writes)
     /\ prev' = last
     /\ UNCHANGED platform
     /\ UNCHANGED conc
     /\ UNCHANGED aux

\* the stores an external writer (the owning application, the user) can
\* turn the store s into with one change: another instance type, another
\* custom path, a change of a foreign key, the file removed or corrupted
ExternalTypes == {JInt(0, SYSTEM), JInt(0, BUNDLED), JInt(0, CUSTOM)}
ExternalPaths == {JAbsent, JStr(P_fwd), JStr(P_other)}
ExternalChanges(plat, s) ==
  IF plat = WINDOWS THEN
    {[s EXCEPT !.file = fl] : fl \in IF s.dir THEN {NoFile, MalformedFile} ELSE {}}
    \cup {[s EXCEPT !.file.type = v, !.file.pretty = FALSE] : v \in IF s.file.kind = "object" THEN ExternalTypes ELSE {}}
    \cup {[s EXCEPT !.file.path = v, !.file.pretty = FALSE] : v \in IF s.file.kind = "object" THEN ExternalPaths ELSE {}}
    \cup {[s EXCEPT !.file.other[k] = 1 - @, !.file.pretty = FALSE] : k \in IF s.file.kind = "object" THEN OtherKeys ELSE {}}
  ELSE IF plat = MACOS THEN
    {[s EXCEPT !.domain.type = v] : v \in ExternalTypes} \cup {[s EXCEPT !.domain.path = v] : v \in ExternalPaths}
  ELSE {}

\* a change of the store made from outside this program
External ==
  /\ \E s \in ExternalChanges(platform, Store) \ {Store} :
       /\ SetStore(s)
       /\ last' = Call("external", <<>>, FALSE, OkNone, AllFalse, Store, 0, 0)
  /\ prev' = last
  /\ UNCHANGED platform
  /\ UNCHANGED conc
  /\ UNCHANGED aux

Next ==
  \/ \E p \in ShimPaths : Check(p)
  \/ \E p \in ShimPaths, dry \in BOOLEAN : Install(p, dry)
  \/ \E p \in ShimPaths, dry \in BOOLEAN : Uninstall(p, dry)
  \/ External

Spec == Init /\ [][Next]_vars

\* ----------------------------------------------------------------- claims
\* the call c is a non-dry-run / dry-run call of the operation op
Real(c, op) == c.op = op /\ ~c.dry
Dry(c, op) == c.op = op /\ c.dry
\* what check(params) reports on the present store for the shim path p
CheckNow(p) == check_client(platform, Store, p, NoFault)
\* the store of the call c held a document that parses (or none at all)
Parseable(c) == c.pre.file.kind # "malformed"

\* C1: a non-dry-run install on a store where the client is detected and check
\* is not up to date (file absent, empty, or any parseable document) returns a
\* diff, and the install with the same shim path that follows it returns None
\* and leaves the store as it was.
C1_InstallTwice ==
  /\ (Real(last, "install") /\ Parseable(last) /\ last.chk.client_installed /\ ~last.chk.prefs_up_to_date) => last.res.tag = "Some"
  /\ (Real(prev, "install") /\ Parseable(prev) /\ prev.chk.client_installed /\ ~prev.chk.prefs_up_to_date /\ Real(last, "install") /\ last.path = prev.path)
       => (last.res.tag = "None" /\ Store = last.pre)

\* C1 restricted to stores whose document is a JSON object, blank or absent
C1_InstallTwiceOnObjects ==
  /\ (Real(last, "install") /\ Parseable(last) /\ last.pre.file.kind # "nonobject" /\ last.chk.client_installed /\ ~last.chk.prefs_up_to_date) => last.res.tag = "Some"
  /\ (Real(prev, "install") /\ Parseable(prev) /\ prev.pre.file.kind # "nonobject" /\ prev.chk.client_installed /\ ~prev.chk.prefs_up_to_date /\ Real(last, "install") /\ last.path = prev.path)
       => (last.res.tag = "None" /\ Store = last.pre)

\* C2 (as stated): after a non-dry-run install followed by a non-dry-run
\* uninstall with the same shim path, check reports the prefs_configured,
\* prefs_up_to_date and client_installed it reported before the install.
C2_RoundTripAsStated ==
  (Real(prev, "install") /\ Real(last, "uninstall") /\ last.path = prev.path)
    => /\ CheckNow(last.path).prefs_configured = prev.chk.prefs_configured
       /\ CheckNow(last.path).prefs_up_to_date = prev.chk.prefs_up_to_date
       /\ CheckNow(last.path).client_installed = prev.chk.client_installed

\* C2 (amended): the same, for the stores on which check reported
\* prefs_configured = false before the install.
C2_RoundTrip ==
  (Real(prev, "install") /\ Real(last, "uninstall") /\ last.path = prev.path /\ ~prev.chk.prefs_configured)
    => /\ CheckNow(last.path).prefs_configured = prev.chk.prefs_configured
       /\ CheckNow(last.path).prefs_up_to_date = prev.chk.prefs_up_to_date
       /\ CheckNow(last.path).client_installed = prev.chk.client_installed

\* an install that applied a diff, then the uninstall that reverted it
C2_Witness ==
  /\ Real(prev, "install") /\ Real(last, "uninstall") /\ last.path = prev.path
  /\ ~prev.chk.prefs_configured /\ prev.res.tag = "Some" /\ last.res.tag = "Some"
  /\ Store # last.pre

\* C3: a dry-run install or uninstall leaves the persisted store (every key,
\* the text of the file, the existence of file and directory) as it was, and
\* so do two dry-run calls in a row.
C3_DryRunPure ==
  /\ (last.op \in {"install", "uninstall"} /\ last.dry) => Store = last.pre
  /\ (prev.op \in {"install", "uninstall"} /\ prev.dry /\ last.op \in {"install", "uninstall"} /\ last.dry) => Store = prev.pre

\* a dry-run install that predicted a diff, after a dry-run uninstall that did
C3_Witness ==
  /\ Dry(prev, "uninstall") /\ prev.res.tag = "Some"
  /\ Dry(last, "install") /\ last.res.tag = "Some"

\* C4: the value a dry-run install (uninstall) returns is the value the
\* non-dry-run install (uninstall) with the same shim path returns when it
\* runs next on the store.
C4_DryRunFidelity ==
  /\ (Dry(prev, "install") /\ Real(last, "install") /\ last.path = prev.path) => last.res = prev.res
  /\ (Dry(prev, "uninstall") /\ Real(last, "uninstall") /\ last.path = prev.path) => last.res = prev.res

\* a predicted diff followed by the application of the same diff
C4_Witness ==
  /\ \/ Dry(prev, "install") /\ Real(last, "install")
     \/ Dry(prev, "uninstall") /\ Real(last, "uninstall")
  /\ last.path = prev.path /\ prev.res.tag = "Some" /\ last.res = prev.res /\ Store # last.pre

\* the values under the two keys of the store s of the platform
StoredType(s) == IF platform = WINDOWS THEN s.file.type ELSE s.domain.type
StoredPath(s) == IF platform = WINDOWS THEN s.file.path ELSE s.domain.path

\* C5, on the settings-file backend: after a non-dry-run install that returned
\* a diff the store holds the instance type Custom and the normalized shim
\* path under the custom-path key, whatever the document held before, and
\* check reports prefs_configured and prefs_up_to_date.
C5_InstallEstablishes ==
  (Real(last, "install") /\ last.res.tag = "Some" /\ platform = WINDOWS)
    => /\ StoredType(Store) = JInt(0, CUSTOM)
       /\ StoredPath(Store) = JStr(Normalize(last.path))
       /\ CheckNow(last.path).prefs_configured
       /\ CheckNow(last.path).prefs_up_to_date

\* C5 on the settings file when it holds a JSON object, is blank or is absent
C5_InstallEstablishesOnObjects ==
  (Real(last, "install") /\ last.res.tag = "Some" /\ platform = WINDOWS /\ last.pre.file.kind # "nonobject")
    => /\ StoredType(Store) = JInt(0, CUSTOM)
       /\ StoredPath(Store) = JStr(Normalize(last.path))
       /\ CheckNow(last.path).prefs_configured
       /\ CheckNow(last.path).prefs_up_to_date

\* C6: uninstall returns None and changes nothing when the client is not
\* installed or check reports prefs_configured = false; otherwise a
\* non-dry-run uninstall returns a diff, sets the instance type to System and
\* removes the custom-path key, and check then reports prefs_configured =
\* false and prefs_up_to_date = false.
C6_Uninstall ==
  /\ (last.op = "uninstall" /\ (~last.chk.client_installed \/ ~last.chk.prefs_configured))
       => (last.res.tag = "None" /\ Store = last.pre)
  /\ (Real(last, "uninstall") /\ last.chk.client_installed /\ last.chk.prefs_configured)
       => /\ last.res.tag = "Some"
          /\ StoredType(Store) = JInt(0, SYSTEM)
          /\ StoredPath(Store) = JAbsent
          /\ ~CheckNow(last.path).prefs_configured
          /\ ~CheckNow(last.path).prefs_up_to_date

\* an uninstall that reverted a configured store
C6_Witness ==
  /\ Real(last, "uninstall") /\ last.res.tag = "Some"
  /\ StoredPath(last.pre).t = "str" /\ StoredPath(Store) = JAbsent

\* C7: check leaves the persisted store unchanged, and its result is the
\* one the store content at the time of the call gives, also when the store
\* was changed from outside since the previous check.
C7_CheckReadOnly ==
  last.op = "check"
    => /\ Store = last.pre
       /\ last.writes = 0
       /\ last.chk = CheckNow(last.path)

\* a check, an external change, and a check with the same path that reports
\* something else than the first one
C7_Witness ==
  /\ last.op = "check" /\ prev.op = "external"
  /\ prev.chk # last.chk
  /\ check_client(platform, prev.pre, last.path, NoFault) # last.chk

\* C8: every result of check has prefs_up_to_date => prefs_configured and
\* prefs_configured => client_installed.
C8_CheckResultOrder ==
  last.op = "check"
    => /\ last.chk.prefs_up_to_date => last.chk.prefs_configured
       /\ last.chk.prefs_configured => last.chk.client_installed

\* a check on a store whose path matches although the type is not Custom
C8_Witness ==
  /\ last.op = "check" /\ last.chk.client_installed /\ ~last.chk.prefs_up_to_date
  /\ StoredType(last.pre) # JInt(0, CUSTOM)
  /\ StoredPath(last.pre) = JStr(Normalize(last.path))

\* C9, on the settings-file backend: when the client is detected, check
\* returns prefs_configured = (the instance-type key equals Custom and a
\* custom-path value is present) and prefs_up_to_date = (prefs_configured and
\* the stored path equals the normalized shim path), for every store state.
C9_CheckDefinition ==
  (last.op = "check" /\ last.chk.client_installed /\ platform = WINDOWS)
    => /\ last.chk.prefs_configured = (StoredType(last.pre) = JInt(0, CUSTOM) /\ StoredPath(last.pre).t = "str")
       /\ last.chk.prefs_up_to_date = (last.chk.prefs_configured /\ StoredPath(last.pre).s = Normalize(last.path))

\* C9 on the settings file for instance types that fit 32 bits
C9_CheckDefinitionIn32Bits ==
  (last.op = "check" /\ last.chk.client_installed /\ platform = WINDOWS /\ StoredType(last.pre).hi = 0)
    => /\ last.chk.prefs_configured = (StoredType(last.pre) = JInt(0, CUSTOM) /\ StoredPath(last.pre).t = "str")
       /\ last.chk.prefs_up_to_date = (last.chk.prefs_configured /\ StoredPath(last.pre).s = Normalize(last.path))

\* C10: when detection reports the client as not installed, check returns all
\* false and install and uninstall return None, and the call neither reads
\* nor writes the preference store or the settings file.
C10_NotInstalled ==
  (last.op \in {"check", "install", "uninstall"} /\ is_platform_supported(platform) /\ ~is_fork_installed(platform, last.pre))
    => /\ last.chk = AllFalse
       /\ last.op = "check" => last.res = CheckTag
       /\ last.op \in {"install", "uninstall"} => last.res = OkNone
       /\ last.reads = 0
       /\ last.writes = 0
       /\ Store = last.pre

\* a non-dry-run uninstall on a store that holds Custom and a path while the
\* application is not detected
C10_Witness ==
  /\ Real(last, "uninstall") /\ is_platform_supported(platform)
  /\ ~is_fork_installed(platform, last.pre)
  /\ StoredType(last.pre) = JInt(0, CUSTOM) /\ StoredPath(last.pre).t = "str"


\* C11: on both backends the value install writes under the custom-path key
\* is the shim path with every backslash replaced by a forward slash (so it
\* holds no backslash, and a forward-slash path is written as it is), and
\* two shim paths that differ only in the separator get the same check result.
C11_Normalized ==
  /\ (Real(last, "install") /\ last.res.tag = "Some" /\ last.writes > 0 /\ StoredPath(Store).t = "str")
       => /\ StoredPath(Store).s = Normalize(last.path)
          /\ \A i \in 1..Len(StoredPath(Store).s) : StoredPath(Store).s[i] # BS
  /\ last.op = "check"
       => \A q \in ShimPaths : Normalize(q) = Normalize(last.path) => CheckNow(q) = last.chk

\* C11 on the settings-file backend alone
C11_NormalizedOnSettingsFile ==
  platform = WINDOWS => C11_Normalized

\* ------------------------------------------------ extended-length prefix
\* mdm::utils::clean_path: the path without a leading \\?\ marker
ExtendedMarker == <<BS, BS, "?", BS>>
clean_path(p) == IF Len(p) >= 4 /\ SubSeq(p, 1, 4) = ExtendedMarker THEN SubSeq(p, 5, Len(p)) ELSE p

\* the calls of the installer with a shim path that carries the marker and
\* with the same path without it
ExtPaths == {P_back, P_ext}
NextExt ==
  \/ \E p \in ExtPaths : Check(p)
  \/ \E p \in ExtPaths, dry \in BOOLEAN : Install(p, dry)
  \/ \E p \in ExtPaths, dry \in BOOLEAN : Uninstall(p, dry)

SpecExt == Init /\ [][NextExt]_vars

\* C12, on the settings-file backend: when the shim path given to install or
\* check starts with the extended-length marker, the value written and the
\* value compared are those of the path without the marker, so the stored
\* value holds no marker.
C12_MarkerStripped ==
  /\ (Real(last, "install") /\ last.res.tag = "Some" /\ last.writes > 0 /\ StoredPath(Store).t = "str" /\ platform = WINDOWS)
       => StoredPath(Store).s = Normalize(clean_path(last.path))
  /\ (last.op = "check" /\ platform = WINDOWS)
       => last.chk = CheckNow(clean_path(last.path))


\* the foreign keys of a settings file with their values (none when the text
\* is not a JSON object)
OthersOf(file) == IF file.kind = "object" THEN file.other ELSE NoOthers
Mutation(c) == c.op \in {"install", "uninstall"}

\* C13: after one install or uninstall, and after two of them in a row, every
\* key of the settings document other than GitInstanceType and
\* CustomGitInstancePath is present with the value it had before, and no
\* other key has been added.
C13_UnknownKeysKept ==
  /\ Mutation(last) => OthersOf(Store.file) = OthersOf(last.pre.file)
  /\ (Mutation(prev) /\ Mutation(last)) => OthersOf(Store.file) = OthersOf(prev.pre.file)

\* an install and an uninstall that both rewrote a document with a foreign key
C13_Witness ==
  /\ Real(prev, "install") /\ prev.res.tag = "Some" /\ prev.writes = 1
  /\ Real(last, "uninstall") /\ last.res.tag = "Some" /\ last.writes = 1
  /\ \E k \in OtherKeys : prev.pre.file.other[k] = 1 /\ Store.file.other[k] = 1
  /\ Store.file # prev.pre.file

\* C14: when the settings file holds malformed JSON, check, install and
\* uninstall each return an error and leave the file as it is.
C14_ParseFailureIsError ==
  (platform = WINDOWS /\ last.op \in {"check", "install", "uninstall"} /\ last.pre.file.kind = "malformed")
    => (last.res = Err /\ Store = last.pre)

\* C14 for install alone
C14_InstallFailsOnMalformed ==
  (platform = WINDOWS /\ last.op = "install" /\ last.pre.file.kind = "malformed")
    => (last.res = Err /\ Store = last.pre)

\* C18: on a platform without a backend check returns all false, install
\* and uninstall return None and never an error, whatever the arguments, and
\* is_platform_supported is false there and true on macOS and Windows.
C18_Degraded ==
  /\ is_platform_supported(platform) <=> platform \in {MACOS, WINDOWS}
  /\ platform = LINUX
       => /\ last.op = "check" => (last.chk = AllFalse /\ last.res = CheckTag)
          /\ Mutation(last) => last.res = OkNone
          /\ Mutation(prev) => prev.res = OkNone
          /\ Store = last.pre

\* a non-dry-run install and a dry-run uninstall on the degraded variant
C18_Witness ==
  /\ platform = LINUX /\ ~is_platform_supported(platform)
  /\ Real(prev, "install") /\ Dry(last, "uninstall")

\* C19: with the client detected and no settings file, check, uninstall and a
\* dry-run install do not create the file, check reports prefs_configured =
\* false and prefs_up_to_date = false, uninstall returns None; a non-dry-run
\* install creates the parent directory if it is missing and a file that
\* holds exactly the two keys GitInstanceType and CustomGitInstancePath.
C19_MissingFile ==
  (platform = WINDOWS /\ last.pre.file.kind = "nofile" /\ is_fork_installed_windows(last.pre))
    => /\ last.op = "check" => (Store = last.pre /\ last.res = CheckTag /\ ~last.chk.prefs_configured /\ ~last.chk.prefs_up_to_date)
       /\ last.op = "uninstall" => (Store = last.pre /\ last.res = OkNone)
       /\ Dry(last, "install") => Store = last.pre
       /\ Real(last, "install")
            => /\ last.res.tag = "Some"
               /\ Store.dir
               /\ Store.file = [kind |-> "object", pretty |-> TRUE, type |-> JInt(0, CUSTOM), path |-> JStr(Normalize(last.path)), other |-> NoOthers]

\* a non-dry-run install that had to create the directory and the file
C19_Witness ==
  /\ platform = WINDOWS /\ Real(last, "install")
  /\ last.pre.file.kind = "nofile" /\ ~last.pre.dir /\ is_fork_installed_windows(last.pre)
  /\ Store.dir /\ Store.file.kind = "object"


\* ------------------------------------------------ calls under I/O failures
\* the shim paths and the failing step (or none) of the calls below
IOPaths == {P_fwd, P_other}
CallFaults == Faults \cup {NoFault}

\* check(params) while the step f fails
CheckIO(p, f) ==
  /\ last' = Call("check", p, FALSE, CheckTag, check_client(platform, Store, p, f), Store, check_client(platform, Store, p, f).reads, 0)
  /\ prev' = last
  /\ UNCHANGED <<platform, appFound, settingsDir, settingsFile, prefsDomain>>
  /\ UNCHANGED conc
  /\ UNCHANGED aux

\* install(params, false) while the step f fails
InstallIO(p, f) ==
  LET o == install_prefs(platform, Store, p, FALSE, f)
  IN /\ SetStore(o.s)
     /\ last' = Call("install", p, FALSE, o.res, check_client(platform, Store, p, NoFault), Store, o.reads, o.writes)
     /\ prev' = last
     /\ UNCHANGED platform
     /\ UNCHANGED conc
     /\ UNCHANGED aux

\* uninstall(params, false) while the step f fails
UninstallIO(p, f) ==
  LET o == uninstall_prefs(platform, Store, p, FALSE, f)
  IN /\ SetStore(o.s)
     /\ last' = Call("uninstall", p, FALSE, o.res, check_client(platform, Store, p, NoFault), Store, o.reads, o.writes)
     /\ prev' = last
     /\ UNCHANGED platform
     /\ UNCHANGED conc
     /\ UNCHANGED aux

NextIO ==
  \/ \E p \in IOPaths, f \in CallFaults : CheckIO(p, f)
  \/ \E p \in IOPaths, f \in CallFaults : InstallIO(p, f)
  \/ \E p \in IOPaths, f \in CallFaults : UninstallIO(p, f)

SpecIO == Init /\ [][NextIO]_vars

\* the persisted store of the client: the settings document and the
\* preference domain
Persisted(s) == [file |-> s.file, domain |-> s.domain]
\* the call c is a non-dry-run install or uninstall that returned an error
Failed(c) == Mutation(c) /\ ~c.dry /\ c.res = Err
\* the call c is a macOS install whose second key write failed
SecondWriteFailed(c) == platform = MACOS /\ Real(c, "install") /\ c.res = Err /\ c.writes = 1

\* C15 as stated: whenever a non-dry-run install or uninstall returns an
\* error, the persisted store is exactly what it was before the call.
C15_UnchangedOnErrorAsStated == Failed(last) => Persisted(Store) = Persisted(last.pre)

\* C15, amended: whenever a non-dry-run install or uninstall returns an
\* error, the settings file is exactly what it was before the call, and the
\* preference domain is what it was before the call unless the failing step
\* is the second key write of install, in which case the custom-path key is
\* what it was and the instance-type key holds Custom.
C15_UnchangedOnError ==
  Failed(last)
    => /\ Store.file = last.pre.file
       /\ Store.domain.path = last.pre.domain.path
       /\ IF SecondWriteFailed(last) THEN Store.domain.type = JInt(0, CUSTOM) ELSE Store.domain.type = last.pre.domain.type

\* an install stopped by its second key write on a domain that did not hold
\* the Custom type
C15_Witness ==
  /\ Failed(last) /\ SecondWriteFailed(last)
  /\ last.pre.domain.type # JInt(0, CUSTOM)
  /\ Store.domain.type = JInt(0, CUSTOM)

\* the call before the last one is a macOS install stopped by its second
\* write on a domain that held no custom-path key
SecondWriteFailedBefore == platform = MACOS /\ Real(prev, "install") /\ prev.res = Err /\ prev.writes = 1 /\ prev.pre.domain.path = JAbsent

\* C20: on the macOS backend a non-dry-run install writes the instance type
\* before the custom path: a call stopped by the second write returns an
\* error with the type written and the path key as it was, a call stopped
\* by the first write has changed nothing; a check made on the store such a
\* call leaves, when no path key existed before, reports prefs_configured =
\* false and prefs_up_to_date = false, and an install with the same path
\* made on that store returns a diff and completes the configuration.
C20_WriteOrdering ==
  platform = MACOS =>
    /\ (Real(last, "install") /\ last.res = Err)
         => /\ Store.domain.path = last.pre.domain.path
            /\ last.writes = 1 => Store.domain.type = JInt(0, CUSTOM)
            /\ last.writes = 0 => Store.domain.type = last.pre.domain.type
    /\ (SecondWriteFailedBefore /\ last.op = "check")
         => (~last.chk.prefs_configured /\ ~last.chk.prefs_up_to_date)
    /\ (SecondWriteFailedBefore /\ Real(last, "install") /\ last.path = prev.path /\ last.res # Err)
         => /\ last.res.tag = "Some"
            /\ Store.domain = [type |-> JInt(0, CUSTOM), path |-> JStr(ToStringLossy(last.path))]
            /\ CheckNow(last.path).prefs_up_to_date

\* an install stopped between its two writes, then completed by a second one
C20_Witness ==
  /\ platform = MACOS /\ SecondWriteFailedBefore
  /\ prev.pre.domain.type # JInt(0, CUSTOM)
  /\ Real(last, "install") /\ last.path = prev.path /\ last.res.tag = "Some"
  /\ Store.domain.path = JStr(last.path)


\* --------------------------------------- two processes, statement by statement
\* the shim paths and the operations of the two concurrent invocations
ConcPaths == {P_fwd, P_other}
ConcOps == {"install", "uninstall"}
\* a file of which only a part of the text doc has been written
PartialFile(doc) == [doc EXCEPT !.kind = "partial"]
\* the path an invocation writes: to_string_lossy, and replace('\\', "/") on
\* the settings-file backend
WrapperPath(p) == IF platform = WINDOWS THEN Normalize(ToStringLossy(p)) ELSE ToStringLossy(p)
\* the record of the invocation of process i as the latest writer
Writer(i) == Call(loc[i].op, loc[i].path, FALSE, OkNone, AllFalse, prev.pre, 0, i)

\* process i calls install(params, false) or uninstall(params, false)
Start(i, op, p) ==
  /\ pc[i] = "idle"
  /\ pc' = [pc EXCEPT ![i] = "detect"]
  /\ loc' = [loc EXCEPT ![i] = Locals(op, p)]
  /\ UNCHANGED <<platform, appFound, settingsDir, settingsFile, prefsDomain, last, prev, tmp, seen>>
  /\ UNCHANGED aux

\* check_client: is_fork_installed (the degraded variant returns at once)
Detect(i) ==
  /\ pc[i] = "detect"
  /\ pc' = [pc EXCEPT ![i] = IF is_platform_supported(platform) /\ is_fork_installed(platform, Store) THEN "chk_type" ELSE "done"]
  /\ UNCHANGED <<platform, appFound, settingsDir, settingsFile, prefsDomain, last, prev, loc, tmp, seen>>
  /\ UNCHANGED aux

\* check_client: the read of the instance type
ReadType(i) ==
  /\ pc[i] = "chk_type"
  /\ loc' = [loc EXCEPT ![i].gtype = IF platform = MACOS THEN read_int(prefsDomain.type) ELSE read_git_instance_type(Store, FALSE)]
  /\ pc' = [pc EXCEPT ![i] = "chk_path"]
  /\ UNCHANGED <<platform, appFound, settingsDir, settingsFile, prefsDomain, last, prev, tmp, seen>>
  /\ UNCHANGED aux

\* check_client: the read of the custom path, and the early returns of
\* install (up to date) and of uninstall (not configured) on its result
ReadPath(i) ==
  /\ pc[i] = "chk_path"
  /\ LET custom_path == IF platform = MACOS THEN read_string(prefsDomain.path) ELSE read_custom_git_path(Store, FALSE)
         is_custom == loc[i].gtype = SomeInt(CUSTOM)
         prefs_configured == is_custom /\ custom_path.some
         prefs_up_to_date == is_custom /\ custom_path.some /\ custom_path.s = WrapperPath(loc[i].path)
         returns == IF loc[i].op = "install" THEN prefs_up_to_date ELSE ~prefs_configured
     IN /\ loc' = [loc EXCEPT ![i].cpath = custom_path]
        /\ pc' = [pc EXCEPT ![i] = IF returns THEN "done"
                                   ELSE IF platform = WINDOWS THEN "read"
                                   ELSE IF loc[i].op = "install" THEN "write1" ELSE "read_old"]
  /\ UNCHANGED <<platform, appFound, settingsDir, settingsFile, prefsDomain, last, prev, tmp, seen>>
  /\ UNCHANGED aux

\* uninstall_prefs (macos): the reads of old_type and old_path, which only
\* the returned diff depends on
ReadOld(i) ==
  /\ pc[i] = "read_old"
  /\ LET rt == read_int(prefsDomain.type)
         rp == read_string(prefsDomain.path)
     IN loc' = [loc EXCEPT ![i].res = OkSome(RemoveDiff("domain", IF rt.some THEN rt.n ELSE 0, IF rp.some THEN rp.s ELSE <<>>))]
  /\ pc' = [pc EXCEPT ![i] = "write1"]
  /\ UNCHANGED <<platform, appFound, settingsDir, settingsFile, prefsDomain, last, prev, tmp, seen>>
  /\ UNCHANGED aux

\* prefs.write_int("gitInstanceType", CUSTOM) of install, (.., SYSTEM) of uninstall
WriteFirst(i) ==
  /\ pc[i] = "write1"
  /\ prefsDomain' = write_int(prefsDomain, "type", IF loc[i].op = "install" THEN CUSTOM ELSE SYSTEM)
  /\ loc' = [loc EXCEPT ![i].wrote = 1]
  /\ last' = Writer(i)
  /\ pc' = [pc EXCEPT ![i] = "write2"]
  /\ UNCHANGED <<platform, appFound, settingsDir, settingsFile, prev, tmp, seen>>
  /\ UNCHANGED aux

\* prefs.write_string("customGitInstancePath", ..) of install,
\* prefs.delete("customGitInstancePath") of uninstall
WriteSecond(i) ==
  /\ pc[i] = "write2"
  /\ prefsDomain' = IF loc[i].op = "install" THEN write_string(prefsDomain, "path", WrapperPath(loc[i].path)) ELSE delete(prefsDomain, "path")
  /\ loc' = [loc EXCEPT ![i].wrote = 2, ![i].res = IF loc[i].op = "install" THEN OkSome(AddDiff("domain", WrapperPath(loc[i].path))) ELSE @]
  /\ last' = Writer(i)
  /\ pc' = [pc EXCEPT ![i] = "done"]
  /\ UNCHANGED <<platform, appFound, settingsDir, settingsFile, prev, tmp, seen>>
  /\ UNCHANGED aux

\* install_prefs / uninstall_prefs (windows): settings_path.exists(),
\* fs::read_to_string, serde_json::from_str, and the update of the document
\* in memory
ReadDoc(i) ==
  /\ pc[i] = "read"
  /\ LET isEmpty == settingsFile.kind \in {"nofile", "blank"}
         settings == IF isEmpty THEN EmptyObject ELSE settingsFile
         old_type == IF settingsFile.kind = "object" /\ settingsFile.type.t = "int" THEN AsI32(settingsFile.type) ELSE 0
         old_path == IF settingsFile.kind = "object" /\ settingsFile.path.t = "str" THEN settingsFile.path.s ELSE <<>>
     IN IF loc[i].op = "install" THEN
          IF ~isEmpty /\ ~Parses(settingsFile)
            THEN /\ loc' = [loc EXCEPT ![i].res = Err]
                 /\ pc' = [pc EXCEPT ![i] = "done"]
            ELSE /\ loc' = [loc EXCEPT ![i].new = to_string_pretty(ConfigureObject(settings, WrapperPath(loc[i].path))), ![i].res = OkSome(AddDiff("file", WrapperPath(loc[i].path)))]
                 /\ pc' = [pc EXCEPT ![i] = IF settingsDir THEN "tmp_create" ELSE "mkdir"]
        ELSE
          IF settingsFile.kind = "nofile"
            THEN /\ loc' = loc
                 /\ pc' = [pc EXCEPT ![i] = "done"]
          ELSE IF ~Parses(settingsFile)
            THEN /\ loc' = [loc EXCEPT ![i].res = Err]
                 /\ pc' = [pc EXCEPT ![i] = "done"]
            ELSE /\ loc' = [loc EXCEPT ![i].new = to_string_pretty(RevertObject(settingsFile)), ![i].res = OkSome(RemoveDiff("file", old_type, old_path))]
                 /\ pc' = [pc EXCEPT ![i] = "tmp_create"]
  /\ UNCHANGED <<platform, appFound, settingsDir, settingsFile, prefsDomain, last, prev, tmp, seen>>
  /\ UNCHANGED aux

\* fs::create_dir_all(parent) of install
MkDir(i) ==
  /\ pc[i] = "mkdir"
  /\ settingsDir' = create_dir_all(Store).dir
  /\ pc' = [pc EXCEPT ![i] = "tmp_create"]
  /\ UNCHANGED <<platform, appFound, settingsFile, prefsDomain, last, prev, loc, tmp, seen>>
  /\ UNCHANGED aux

\* a write_atomic that writes the text into the settings file itself
CreateTempInPlace(i) ==
  /\ pc[i] = "tmp_create"
  /\ settingsFile' = PartialFile(loc[i].new)
  /\ pc' = [pc EXCEPT ![i] = "tmp_fill"]
  /\ UNCHANGED <<platform, appFound, settingsDir, prefsDomain, last, prev, loc, tmp, seen>>
  /\ UNCHANGED aux

\* write_atomic: the temporary file is created in the directory of the
\* settings file and a first part of the text is written to it
CreateTemp(i) ==
  /\ pc[i] = "tmp_create"
  /\ tmp' = [tmp EXCEPT ![i] = PartialFile(loc[i].new)]
  /\ pc' = [pc EXCEPT ![i] = "tmp_fill"]
  /\ UNCHANGED <<platform, appFound, settingsDir, settingsFile, prefsDomain, last, prev, loc, seen>>
  /\ UNCHANGED aux

\* write_atomic: the rest of the text is written to the temporary file
FillTemp(i) ==
  /\ pc[i] = "tmp_fill"
  /\ tmp' = [tmp EXCEPT ![i] = loc[i].new]
  /\ pc' = [pc EXCEPT ![i] = "rename"]
  /\ UNCHANGED <<platform, appFound, settingsDir, settingsFile, prefsDomain, last, prev, loc, seen>>
  /\ UNCHANGED aux

\* write_atomic: the temporary file replaces the settings file
Rename(i) ==
  /\ pc[i] = "rename"
  /\ settingsFile' = write_atomic(Store, tmp[i]).file
  /\ tmp' = [tmp EXCEPT ![i] = NoFile]
  /\ loc' = [loc EXCEPT ![i].wrote = 1]
  /\ last' = Writer(i)
  /\ pc' = [pc EXCEPT ![i] = "done"]
  /\ UNCHANGED <<platform, appFound, settingsDir, prefsDomain, prev, seen>>
  /\ UNCHANGED aux

\* the process of an invocation in flight dies
InFlight(i) == pc[i] \notin {"idle", "done", "crashed"}
Crash(i) ==
  /\ InFlight(i)
  /\ pc' = [pc EXCEPT ![i] = "crashed"]
  /\ UNCHANGED <<platform, appFound, settingsDir, settingsFile, prefsDomain, last, prev, loc, tmp, seen>>
  /\ UNCHANGED aux

\* another reader reads the settings path
ReadFile ==
  /\ platform = WINDOWS
  /\ seen' = settingsFile
  /\ UNCHANGED <<platform, appFound, settingsDir, settingsFile, prefsDomain, last, prev, pc, loc, tmp>>
  /\ UNCHANGED aux

\* the stores the two invocations start from: the client is there, and the
\* document holds no foreign key
InitConc == Init /\ appFound /\ (settingsFile.kind = "object" => settingsFile.other = NoOthers)

NextConc ==
  \/ \E i \in Procs, op \in ConcOps, p \in ConcPaths : Start(i, op, p)
  \/ \E i \in Procs : Detect(i)
  \/ \E i \in Procs : ReadType(i)
  \/ \E i \in Procs : ReadPath(i)
  \/ \E i \in Procs : ReadOld(i)
  \/ \E i \in Procs : WriteFirst(i)
  \/ \E i \in Procs : WriteSecond(i)
  \/ \E i \in Procs : ReadDoc(i)
  \/ \E i \in Procs : MkDir(i)
  \/ \E i \in Procs : CreateTemp(i)
  \/ \E i \in Procs : FillTemp(i)
  \/ \E i \in Procs : Rename(i)
  \/ \E i \in Procs : Crash(i)
  \/ ReadFile

SpecConc == InitConc /\ [][NextConc]_vars


\* the process i has begun the write of its document
Writing(i) == tmp[i].kind # "nofile" \/ loc[i].wrote > 0
\* the complete documents a reader may get: the one the settings path held
\* before the invocations, and the new document of every write begun
Documents == {prev.pre.file} \cup {loc[i].new : i \in {j \in Procs : Writing(j)}}

\* C16: while install or uninstall replaces the settings file, at every step
\* of the write and after a crash of the writer at any step, what a reader of
\* the settings path gets, and what the path holds for the next read, is the
\* complete previous document or the complete new document of a write begun,
\* never a partial text, and never a missing file once the file has existed.
C16_NoTornRead ==
  platform = WINDOWS =>
    /\ settingsFile \in Documents
    /\ seen # NotRead => seen \in Documents
    /\ settingsFile.kind # "partial" /\ seen.kind # "partial"
    /\ prev.pre.file.kind # "nofile" => (settingsFile.kind # "nofile" /\ seen.kind # "nofile")
    /\ (\E i \in Procs : loc[i].wrote > 0) => settingsFile.kind # "nofile"

\* a reader that got the previous document while one writer had crashed in
\* the middle of its temporary file, and the other writer then replaced the
\* settings file
C16_Witness ==
  /\ platform = WINDOWS
  /\ seen = prev.pre.file
  /\ \E i \in Procs : pc[i] = "crashed" /\ tmp[i].kind = "partial"
  /\ \E j \in Procs : pc[j] = "done" /\ loc[j].wrote = 1 /\ settingsFile = loc[j].new /\ settingsFile # seen

\* both invocations have returned
AllDone == \A i \in Procs : pc[i] = "done"
\* the (instance type, custom path) pair the invocation c writes
PairOf(c) == IF c.op = "install" THEN <<JInt(0, CUSTOM), JStr(WrapperPath(c.path))>> ELSE <<JInt(0, SYSTEM), JAbsent>>
StoredPair == <<StoredType(Store), StoredPath(Store)>>

\* C17, on the preference-domain backend: once two concurrent non-dry-run
\* invocations of install and/or uninstall have both returned, the
\* (instance type, custom path) pair in the store is the pair of the
\* invocation that made the last write: Custom with its path, or System with
\* no path key.
C17_LastWriterWins == (platform = MACOS /\ AllDone /\ last.op \in ConcOps) => StoredPair = PairOf(last)

\* C17 on the settings-file backend, for documents that are JSON objects
C17_LastWriterWinsOnSettingsFile ==
  (platform = WINDOWS /\ AllDone /\ last.op \in ConcOps /\ prev.pre.file.kind # "nonobject") => StoredPair = PairOf(last)


\* C21: whenever a non-dry-run uninstall returns a diff, the instance type
\* in the store is System and the custom-path key is absent; a failure of
\* the step that resets the type or of the step that removes the path key
\* makes uninstall return an error instead.
C21_NoSwallowedFailure ==
  (Real(last, "uninstall") /\ last.res.tag = "Some")
    => (StoredType(Store) = JInt(0, SYSTEM) /\ StoredPath(Store) = JAbsent)

\* C21 on the settings-file backend alone
C21_NoSwallowedFailureOnSettingsFile == platform = WINDOWS => C21_NoSwallowedFailure

\* the name of the store in the header of a diff
StoreName == IF platform = WINDOWS THEN "file" ELSE "domain"
\* the stored instance type as a number, where it is one that fits 32 bits
\* (-1 stands for every other stored value)
StoredNumber(v) == IF v.t = "int" /\ v.hi = 0 THEN v.lo ELSE -1

\* C22: the diff an uninstall returns is a removal whose header names the
\* store, whose instance-type line carries the type stored before the call,
\* which is Custom = 2, and which has a custom-path line, with the path
\* stored before the call, exactly when that path is a non-empty string.
C22_DiffReportsStored ==
  (last.op = "uninstall" /\ last.res.tag = "Some")
    => /\ last.res.diff.sign = "-"
       /\ last.res.diff.target = StoreName
       /\ last.res.diff.type = StoredNumber(StoredType(last.pre))
       /\ last.res.diff.type = CUSTOM
       /\ last.res.diff.hasPath <=> (StoredPath(last.pre).t = "str" /\ StoredPath(last.pre).s # <<>>)
       /\ last.res.diff.hasPath => last.res.diff.path = StoredPath(last.pre).s

\* C22 for stored instance types that fit 32 bits
C22_DiffReportsStoredIn32Bits == (StoredType(last.pre).hi = 0) => C22_DiffReportsStored

\* C23: an uninstall returns what it would have returned, and leaves the
\* store it would have left, with any other shim path; and a non-dry-run
\* uninstall on a store that check reports as configured returns a diff and
\* leaves the type System with no path key, also when the stored path is
\* not the caller's shim path.
C23_PathIndependent ==
  /\ last.op = "uninstall"
       => \A q \in ShimPaths :
            /\ uninstall_prefs(platform, last.pre, q, last.dry, NoFault).res = last.res
            /\ uninstall_prefs(platform, last.pre, q, last.dry, NoFault).s = Store
  /\ (Real(last, "uninstall") /\ last.chk.prefs_configured)
       => /\ last.res.tag = "Some"
          /\ StoredType(Store) = JInt(0, SYSTEM)
          /\ StoredPath(Store) = JAbsent

\* a non-dry-run uninstall that reverted a configuration pointing elsewhere
C23_Witness ==
  /\ Real(last, "uninstall") /\ last.res.tag = "Some"
  /\ last.chk.prefs_configured /\ ~last.chk.prefs_up_to_date
  /\ StoredPath(last.pre).t = "str" /\ StoredPath(last.pre).s # Normalize(last.path)
  /\ Store # last.pre


\* ------------------------------- the owning application writes meanwhile
\* process 1 is the installer, process 2 the application that owns the file
Installer == 1
Owner == 2

\* the owning application replaces the settings file by a document in which
\* the foreign key k has a new value (one atomic write, made once)
OwnerWrite(k) ==
  /\ pc[Owner] = "idle"
  /\ settingsFile.kind = "object"
  /\ settingsFile' = [settingsFile EXCEPT !.other[k] = 1 - @, !.pretty = FALSE]
  /\ loc' = [loc EXCEPT ![Owner] = [Locals("owner", <<>>) EXCEPT !.new = [settingsFile EXCEPT !.other[k] = 1 - @, !.pretty = FALSE], !.wrote = 1]]
  /\ pc' = [pc EXCEPT ![Owner] = "done"]
  /\ UNCHANGED <<platform, appFound, settingsDir, prefsDomain, last, prev, tmp, seen>>
  /\ UNCHANGED aux

InitOwner == InitConc /\ platform = WINDOWS

NextOwner ==
  \/ \E op \in ConcOps, p \in ConcPaths : Start(Installer, op, p)
  \/ Detect(Installer)
  \/ ReadType(Installer)
  \/ ReadPath(Installer)
  \/ ReadDoc(Installer)
  \/ MkDir(Installer)
  \/ CreateTemp(Installer)
  \/ FillTemp(Installer)
  \/ Rename(Installer)
  \/ \E k \in OtherKeys : OwnerWrite(k)

SpecOwner == InitOwner /\ [][NextOwner]_vars

\* C24: when the owning application has changed a foreign key of the
\* settings file at any point of a non-dry-run install or uninstall, the
\* file holds the application's value of every foreign key once the
\* operation has returned.
C24_NoLostUpdate ==
  (pc[Installer] = "done" /\ pc[Owner] = "done")
    => (settingsFile.kind = "object" /\ settingsFile.other = loc[Owner].new.other)


\* ------------------------------------------------ get_gitlab_ci_context
\* bounds: merge requests in a response, and their iids
MaxMRs == 2
MaxIid == 2
\* the environment variables the function reads
RequiredVars == {"CI_API_V4_URL", "CI_PROJECT_ID", "CI_COMMIT_SHA", "CI_SERVER_URL", "CI_PROJECT_PATH"}
TokenVars == {"CI_JOB_TOKEN", "GITLAB_TOKEN"}
\* the value of CI_COMMIT_SHA, and the sha of another commit
ShaA == <<"a">>
ShaB == <<"b">>
\* the merge requests an API response may list
GitLabMergeRequest == [iid : 1..MaxIid, target_branch : {"main", "dev"}, merge_commit_sha : {NoneV, SomeStr(ShaA), SomeStr(ShaB)}]
MergeRequestLists == UNION {[1..n -> GitLabMergeRequest] : n \in 0..MaxMRs}
\* what the HTTP request comes back with: no response at all (sent = FALSE),
\* or a status and a body; the body is a JSON array of merge requests
\* ("list"), text that does not parse as one ("badjson"), or bytes that are
\* not UTF-8 ("notutf8")
Responses ==
  {[sent |-> FALSE, status |-> 0, body |-> "", mrs |-> <<>>]}
  \cup {[sent |-> TRUE, status |-> 404, body |-> "badjson", mrs |-> <<>>]}
  \cup {[sent |-> TRUE, status |-> 200, body |-> b, mrs |-> <<>>] : b \in {"badjson", "notutf8"}}
  \cup {[sent |-> TRUE, status |-> 200, body |-> "list", mrs |-> l] : l \in MergeRequestLists}
\* the effects of the function, in the order they are made
HttpGet == [cmd |-> "http", branch |-> "", iid |-> 0]
GitClone(branch) == [cmd |-> "clone", branch |-> branch, iid |-> 0]
GitFetch(iid) == [cmd |-> "fetch", branch |-> "", iid |-> iid]

\* merge_requests.into_iter().find(|mr| mr.merge_commit_sha.as_ref() == Some(&commit_sha))
Matches(mrs, commit_sha) == {i \in 1..Len(mrs) : mrs[i].merge_commit_sha = SomeStr(commit_sha)}
Find(mrs, commit_sha) == IF Matches(mrs, commit_sha) = {} THEN NoMR ELSE mrs[CHOOSE i \in Matches(mrs, commit_sha) : \A j \in Matches(mrs, commit_sha) : i <= j]
\* response.as_str().unwrap_or("[]") then serde_json::from_str: a body that
\* is not UTF-8 is read as the empty array
ParsedBody(body, mrs) == IF body = "notutf8" THEN [ok |-> TRUE, mrs |-> <<>>] ELSE IF body = "list" THEN [ok |-> TRUE, mrs |-> mrs] ELSE [ok |-> FALSE, mrs |-> <<>>]
Returned(g, result) == [g EXCEPT !.pc = "returned", !.result = result]

\* the CI job calls get_gitlab_ci_context with the variables of env set
GlStart(env) ==
  /\ gl.pc = "idle"
  /\ gl' = [gl EXCEPT !.pc = "env", !.env = env]
  /\ UNCHANGED <<platform, appFound, settingsDir, settingsFile, prefsDomain, last, prev, conc, ln>>

\* the five std::env::var(..)? and the choice of the token
GlEnv ==
  /\ gl.pc = "env"
  /\ gl' = IF ~(RequiredVars \subseteq gl.env) THEN Returned(gl, "Err")
           ELSE IF "CI_JOB_TOKEN" \in gl.env THEN [gl EXCEPT !.pc = "send", !.header = "JOB-TOKEN"]
           ELSE IF "GITLAB_TOKEN" \in gl.env THEN [gl EXCEPT !.pc = "send", !.header = "PRIVATE-TOKEN"]
           ELSE Returned(gl, "Err")
  /\ UNCHANGED <<platform, appFound, settingsDir, settingsFile, prefsDomain, last, prev, conc, ln>>

\* minreq::get(&endpoint)...send().map_err(..)?
GlSend(r) ==
  /\ gl.pc = "send"
  /\ gl' = IF ~r.sent THEN [Returned(gl, "Err") EXCEPT !.log = Append(gl.log, HttpGet)]
           ELSE [gl EXCEPT !.pc = "respond", !.log = Append(gl.log, HttpGet), !.status = r.status, !.body = r.body, !.mrs = r.mrs]
  /\ UNCHANGED <<platform, appFound, settingsDir, settingsFile, prefsDomain, last, prev, conc, ln>>

\* the status test, the parse of the body and the search of the merge request
GlRespond ==
  /\ gl.pc = "respond"
  /\ gl' = IF gl.status # 200 THEN Returned(gl, "Err")
           ELSE IF ~ParsedBody(gl.body, gl.mrs).ok THEN Returned(gl, "Err")
           ELSE IF Find(ParsedBody(gl.body, gl.mrs).mrs, ShaA) = NoMR THEN Returned(gl, "None")
           ELSE [gl EXCEPT !.pc = "clone", !.mr = Find(ParsedBody(gl.body, gl.mrs).mrs, ShaA)]
  /\ UNCHANGED <<platform, appFound, settingsDir, settingsFile, prefsDomain, last, prev, conc, ln>>

\* exec_git(["clone", "--branch", mr.target_branch, url, clone_dir])?
GlClone(ok) ==
  /\ gl.pc = "clone"
  /\ gl' = IF ok THEN [gl EXCEPT !.pc = "fetch", !.clone = "ok", !.log = Append(gl.log, GitClone(gl.mr.target_branch))]
           ELSE [Returned(gl, "Err") EXCEPT !.clone = "failed", !.log = Append(gl.log, GitClone(gl.mr.target_branch))]
  /\ UNCHANGED <<platform, appFound, settingsDir, settingsFile, prefsDomain, last, prev, conc, ln>>

\* exec_git(["-C", clone_dir, "fetch", url, "refs/merge-requests/<iid>/head:.."])?
GlFetch(ok) ==
  /\ gl.pc = "fetch"
  /\ gl' = IF ok THEN [gl EXCEPT !.pc = "find", !.fetch = "ok", !.log = Append(gl.log, GitFetch(gl.mr.iid))]
           ELSE [Returned(gl, "Err") EXCEPT !.fetch = "failed", !.log = Append(gl.log, GitFetch(gl.mr.iid))]
  /\ UNCHANGED <<platform, appFound, settingsDir, settingsFile, prefsDomain, last, prev, conc, ln>>

\* find_repository_in_path(&clone_dir)? and Ok(Some(CiContext {..}))
GlFindRepo(ok) ==
  /\ gl.pc = "find"
  /\ gl' = Returned(gl, IF ok THEN "Some" ELSE "Err")
  /\ UNCHANGED <<platform, appFound, settingsDir, settingsFile, prefsDomain, last, prev, conc, ln>>

InitGitlab == Init /\ platform = LINUX

NextGitlab ==
  \/ \E env \in SUBSET (RequiredVars \cup TokenVars) : GlStart(env)
  \/ GlEnv
  \/ \E r \in Responses : GlSend(r)
  \/ GlRespond
  \/ \E ok \in BOOLEAN : GlClone(ok)
  \/ \E ok \in BOOLEAN : GlFetch(ok)
  \/ \E ok \in BOOLEAN : GlFindRepo(ok)

SpecGitlab == InitGitlab /\ [][NextGitlab]_vars

\* a required variable or both tokens are missing
EnvIncomplete == ~(RequiredVars \subseteq gl.env) \/ gl.env \cap TokenVars = {}
GlReturned == gl.pc = "returned"
\* the response has arrived and names a merge request of the commit
GlMatched == gl.status = 200 /\ gl.body = "list" /\ Matches(gl.mrs, ShaA) # {}
FirstMatch == Find(gl.mrs, ShaA)
\* the effects made when both git commands have run, in their order
FullLog == <<HttpGet, GitClone(FirstMatch.target_branch), GitFetch(FirstMatch.iid)>>

\* C25: get_gitlab_ci_context returns an error before any HTTP request when
\* a required variable or the token is missing; returns an error on a
\* non-200 response or a body that cannot be parsed; returns Ok(None)
\* without a clone or a fetch when no merge request has merge_commit_sha
\* equal to CI_COMMIT_SHA; and otherwise clones the target branch of the
\* first matching merge request before it fetches that request's head ref,
\* returns an error when either fails, and returns Ok(Some) only after both
\* succeeded.
C25_Ordering ==
  /\ (gl.pc # "idle" /\ gl.pc # "env" /\ EnvIncomplete) => (GlReturned /\ gl.result = "Err" /\ gl.log = <<>>)
  /\ (GlReturned /\ gl.log # <<>> /\ (gl.status # 200 \/ gl.body # "list")) => gl.result = "Err"
  /\ (GlReturned /\ gl.status = 200 /\ gl.body = "list" /\ ~GlMatched) => (gl.result = "None" /\ gl.log = <<HttpGet>>)
  /\ (gl.log # <<>> /\ GlMatched)
       => /\ \E n \in 1..3 : gl.log = SubSeq(FullLog, 1, n)
          /\ Len(gl.log) = 3 => gl.clone = "ok"
          /\ (GlReturned /\ (gl.clone = "failed" \/ gl.fetch = "failed")) => gl.result = "Err"
          /\ (GlReturned /\ gl.result = "Some") => (gl.log = FullLog /\ gl.clone = "ok" /\ gl.fetch = "ok")
          /\ GlReturned => gl.result \in {"Err", "Some"}
  /\ gl.result = "Some" => GlMatched

\* C25 for responses whose body is text
C25_OrderingOnTextBodies == gl.body # "notutf8" => C25_Ordering


\* --------------------------------------------------- ensure_git_symlinks
\* bound: calls of ensure_git_symlinks in a row
MaxCalls == 2
\* paths as sequences of components below the root
ExeInstalled == <<"home", ".git-ai", "bin", "git-ai">>
ExeNix == <<"nix", "store", "pkg", "bin", "git-ai">>
ExeAtRoot == <<"git-ai">>
ExePaths == {ExeInstalled, ExeNix, ExeAtRoot}
\* what `git --exec-path` prints, and a directory an old link points to
RealExecPath == <<"usr", "libexec", "git-core">>
OldLibexec == <<"opt", "libexec">>
\* exe_path.to_string_lossy().contains("/nix/store")
ContainsNixStore(p) == \E i \in 1..(Len(p) - 1) : p[i] = "nix" /\ p[i + 1] = "store"
\* Path::parent: None for the root
HasParent(p) == Len(p) > 0
Parent(p) == SubSeq(p, 1, Len(p) - 1)
LinkTo(dir) == [kind |-> "link", to |-> dir]
\* what <base_dir>/libexec may be before the first call
Entries == {NoEntry, LinkTo(Parent(RealExecPath)), LinkTo(OldLibexec), [kind |-> "file", to |-> <<>>], [kind |-> "dir", to |-> <<>>]}
\* the outcome of exec_git(["--exec-path"]): the command fails, prints bytes
\* that are not UTF-8, prints nothing, or prints the exec-path
ExecOutputs == {[ok |-> FALSE, utf8 |-> TRUE, path |-> <<>>], [ok |-> TRUE, utf8 |-> FALSE, path |-> <<>>], [ok |-> TRUE, utf8 |-> TRUE, path |-> <<>>], [ok |-> TRUE, utf8 |-> TRUE, path |-> RealExecPath]}
LnReturned(l, result) == [l EXCEPT !.pc = "returned", !.result = result]

\* the first call, on the system os with the executable at exe and the
\* entry e at <base_dir>/libexec
LnStart(os, exe, e) ==
  /\ ln.pc = "idle"
  /\ ln' = [ln EXCEPT !.pc = "exe", !.os = os, !.exe = exe, !.link = e, !.link0 = e, !.link1 = e, !.calls = 1]
  /\ UNCHANGED <<platform, appFound, settingsDir, settingsFile, prefsDomain, last, prev, conc, gl>>

\* the next call, after the previous one returned
LnAgain ==
  /\ ln.pc = "returned"
  /\ ln.calls < MaxCalls
  /\ ln' = [ln EXCEPT !.pc = "exe", !.known = FALSE, !.link0 = ln.link, !.calls = @ + 1, !.git = 0, !.before = ln.result, !.result = "running"]
  /\ UNCHANGED <<platform, appFound, settingsDir, settingsFile, prefsDomain, last, prev, conc, gl>>

\* std::env::current_exe()?, the /nix/store test, binary_dir and base_dir
LnCurrentExe(ok) ==
  /\ ln.pc = "exe"
  /\ ln' = IF ~ok THEN LnReturned(ln, "Err")
           ELSE IF ContainsNixStore(ln.exe) THEN [LnReturned(ln, "Ok") EXCEPT !.known = TRUE]
           ELSE IF ~HasParent(ln.exe) \/ ~HasParent(Parent(ln.exe)) THEN [LnReturned(ln, "Err") EXCEPT !.known = TRUE]
           ELSE [ln EXCEPT !.pc = "git", !.known = TRUE]
  /\ UNCHANGED <<platform, appFound, settingsDir, settingsFile, prefsDomain, last, prev, conc, gl>>

\* exec_git(["--exec-path"])?, String::from_utf8(..)?, exec_path.parent()
LnExecPath(out) ==
  /\ ln.pc = "git"
  /\ ln' = IF ~out.ok \/ ~out.utf8 \/ ~HasParent(out.path) THEN [LnReturned(ln, "Err") EXCEPT !.git = @ + 1]
           ELSE [ln EXCEPT !.pc = "remove", !.git = @ + 1, !.exec = out.path]
  /\ UNCHANGED <<platform, appFound, settingsDir, settingsFile, prefsDomain, last, prev, conc, gl>>

\* the removal of an entry that is there: on unix remove_file(..)?, which
\* fails on a directory; on windows remove_dir, then remove_file, whose
\* failure is ignored (a directory that is not empty stays)
LnRemove(ok) ==
  /\ ln.pc = "remove"
  /\ ln' = IF ln.link.kind = "absent" THEN [ln EXCEPT !.pc = "create"]
           ELSE IF ln.os = "unix" THEN
             IF ok /\ ln.link.kind # "dir" THEN [ln EXCEPT !.pc = "create", !.link = NoEntry] ELSE LnReturned(ln, "Err")
           ELSE
             IF ok /\ ln.link.kind # "dir" THEN [ln EXCEPT !.pc = "create", !.link = NoEntry] ELSE [ln EXCEPT !.pc = "create"]
  /\ UNCHANGED <<platform, appFound, settingsDir, settingsFile, prefsDomain, last, prev, conc, gl>>

\* a creation of the link that points it at the exec-path itself
LnCreateToExecPath(ok) ==
  /\ ln.pc = "create"
  /\ ln' = IF ~ok \/ ln.link.kind # "absent" THEN LnReturned(ln, "Err")
           ELSE IF ln.os = "unix" THEN [LnReturned(ln, "Ok") EXCEPT !.link = LinkTo(ln.exec)]
           ELSE [ln EXCEPT !.pc = "bash", !.link = LinkTo(ln.exec)]
  /\ UNCHANGED <<platform, appFound, settingsDir, settingsFile, prefsDomain, last, prev, conc, gl>>

\* std::os::unix::fs::symlink(libexec_target, &symlink_path)? on unix,
\* create_junction(&symlink_path, libexec_target)? on windows: both fail when
\* the entry is there
LnCreate(ok) ==
  /\ ln.pc = "create"
  /\ ln' = IF ~ok \/ ln.link.kind # "absent" THEN LnReturned(ln, "Err")
           ELSE IF ln.os = "unix" THEN [LnReturned(ln, "Ok") EXCEPT !.link = LinkTo(Parent(ln.exec))]
           ELSE [ln EXCEPT !.pc = "bash", !.link = LinkTo(Parent(ln.exec))]
  /\ UNCHANGED <<platform, appFound, settingsDir, settingsFile, prefsDomain, last, prev, conc, gl>>

\* ensure_bash_shim(binary_dir)? on windows: when bash.exe is missing it
\* asks Git for its exec-path again and copies bash.exe
LnBashShim(missing, ok) ==
  /\ ln.pc = "bash"
  /\ ln' = [LnReturned(ln, IF missing /\ ~ok THEN "Err" ELSE "Ok") EXCEPT !.git = IF missing THEN @ + 1 ELSE @]
  /\ UNCHANGED <<platform, appFound, settingsDir, settingsFile, prefsDomain, last, prev, conc, gl>>

InitSymlinks == Init /\ platform = LINUX

NextSymlinks ==
  \/ \E os \in {"unix", "windows"}, exe \in ExePaths, e \in Entries : LnStart(os, exe, e)
  \/ LnAgain
  \/ \E ok \in BOOLEAN : LnCurrentExe(ok)
  \/ \E out \in ExecOutputs : LnExecPath(out)
  \/ \E ok \in BOOLEAN : LnRemove(ok)
  \/ \E ok \in BOOLEAN : LnCreate(ok)
  \/ \E missing \in BOOLEAN, ok \in BOOLEAN : LnBashShim(missing, ok)

SpecSymlinks == InitSymlinks /\ [][NextSymlinks]_vars

LnOk == ln.pc = "returned" /\ ln.result = "Ok"

\* C26: when the executable path does not contain /nix/store and the call
\* returns Ok, <base_dir>/libexec is a link to the parent directory of the
\* exec-path Git reported, whatever the entry was before the call, and a
\* second call that returns Ok leaves the entry the first one left; when
\* the executable path contains /nix/store the call returns Ok, the entry
\* is what it was before the call, and Git has not been invoked.
C26_Converges ==
  /\ (LnOk /\ ~ContainsNixStore(ln.exe)) => ln.link = LinkTo(Parent(ln.exec))
  /\ (LnOk /\ ~ContainsNixStore(ln.exe) /\ ln.before = "Ok") => ln.link = ln.link0
  /\ (ln.known /\ ContainsNixStore(ln.exe)) => (LnOk /\ ln.link = ln.link0 /\ ln.git = 0)
  /\ (ln.pc # "idle" /\ ContainsNixStore(ln.exe)) => (ln.link = ln.link1 /\ ln.git = 0)

\* two calls in a row that returned Ok, the first of which found a stale link
C26_Witness ==
  /\ LnOk /\ ln.calls = 2 /\ ln.before = "Ok" /\ ~ContainsNixStore(ln.exe)
  /\ ln.link1 = LinkTo(OldLibexec)
  /\ ln.link = LinkTo(Parent(RealExecPath))

====
